---- MODULE Spec2Model ----
(***************************************************************************)
(* Model of mcp-server/src/index.ts: the PerplexityAutomation singleton    *)
(* (session, initialize, search, close), the tool handler, the HTTP relay, *)
(* the startup routine and the signal handlers.                            *)
(*                                                                         *)
(* The server is one JavaScript event loop: code between two awaits runs   *)
(* atomically, and every await of a browser operation is a point where     *)
(* another request's continuation may run.  Each action below is one such  *)
(* atomic stretch: it resolves the awaited operation (which returns or     *)
(* throws, the environment's choice) and runs the code up to the next      *)
(* await.                                                                  *)
(***************************************************************************)
EXTENDS Integers, Sequences, FiniteSets, TLC

\* ------------------------------------------------------------------ bounds

\* Requests (tool calls, HTTP requests, signals) that may be in flight at once.
MaxInFlight == 2
\* Browser contexts the environment lets the process launch in one run.
MaxCtx == 3
\* The same, in the runs with concurrent requests.
MaxCtxConcurrent == 2
\* In Spec the completion indicator shows by this check at the latest.
MaxVisibleAt == 2
\* Links of one page whose text is longer than a title may be.
MaxLongTitles == 1
\* Elements one container selector of extractAnswer may match, and children
\* of the main region.
MaxElems == 2
\* Links of the site itself at the head of a page's list of links.
MaxOwnLinks == 15
\* Links to distinct external pages that follow them.
MaxFreshLinks == 12
\* Links of any kind at the end of the list.
MaxTailLinks == 2
\* Searches the user of the editor extension starts in one run.
MaxAsked == 3
\* Session initialisations the user of the editor extension starts in one run.
MaxInits == 2

\* ------------------------------------------------------- program constants

maxAttempts == 60
MaxLinksScanned == 15
MaxSources == 10
MaxTitleText == 200
MaxTitleLen == 100
\* The fixed waits of search(), in milliseconds: after page.goto, after the
\* click on the input, after clearing it, after typing, after submitting,
\* between two checks of the completion indicator, before extraction.
GotoWait == 2000
FocusWait == 300
ClearWait == 300
TypeWait == 500
SubmitWait == 2000
PollWait == 2000
SettleWait == 1000
\* The timeout of the editor extension's POST /search, in milliseconds.
ClientSearchTimeout == 120000

\* ------------------------------------------------------------- JS values

Undefined == [t |-> "undefined"]
Str(s) == [t |-> "string", v |-> s]
Num(n) == [t |-> "number", v |-> n]

\* A string is the sequence of its tokens; the empty string is <<>>.
EmptyString == <<>>
QueryText == <<"q">>

Truthy(x) ==
    CASE x.t = "undefined" -> FALSE
      [] x.t = "string" -> x.v # EmptyString
      [] x.t = "number" -> x.v # 0
      [] OTHER -> TRUE

Modes == {"concise", "copilot", "deep"}
Focuses == {"internet", "academic", "writing", "wolfram", "youtube", "reddit"}

\* What a rejected promise carries: an Error with a message, or another value.
Throwables == {"Error", "NonError"}

\* ---------------------------------------------------------------- state

VARIABLES
    session,   \* PerplexityAutomation.session: 0 (null) or the context it holds
    ctx,       \* each browser context: "none", "live", "closing" or "closed"
    proc,      \* the startup routine (0) and the in-flight requests (1..)
    exited,    \* process.exit was called
    scan,      \* the loop over the page's links in search(): its position and result
    resolve,   \* findSearchInput / findSubmitButton: the probes made and the result
    twin,      \* two runs of search() on one page, their screenshots apart
    extraction,\* extractAnswer: the page it read and what it returned
    panel,     \* the editor extension: transcript, webview flag, requests
    timing     \* a search timed by its fixed waits against the client's timeout

\* The state beside the server's own.
aside == <<twin, extraction, panel, timing>>

\* The server's state.
server == <<session, ctx, proc, exited, scan, resolve>>

vars == <<session, ctx, proc, exited, scan, resolve, aside>>

Main == 0
Slots == 1..MaxInFlight
Procs == {Main} \cup Slots
Ctxs == 1..MaxCtx

NoResult == [none |-> TRUE]
NoInput == [none |-> TRUE]

Idle ==
    [op |-> "none", pc |-> "idle", input |-> NoInput, query |-> Undefined,
     mode |-> Undefined, page |-> 0, prior |-> 0, attempts |-> 0,
     thrown |-> "none", result |-> NoResult, reply |-> NoResult,
     outcome |-> "none", touched |-> FALSE, invalidated |-> FALSE,
     usedStale |-> FALSE, initFailed |-> FALSE, noop |-> FALSE,
     via |-> "none", answer |-> Undefined, calls |-> 0,
     checks |-> 0, visibleAt |-> 0, timedOut |-> FALSE,
     shot |-> "none", inputFound |-> "unknown",
     navs |-> 0, clears |-> 0, types |-> 0, submits |-> 0]

Init ==
    /\ session = 0
    /\ ctx = [c \in Ctxs |-> "none"]
    /\ proc = [p \in Procs |-> IF p = Main THEN [Idle EXCEPT !.op = "startup", !.pc = "connecting"] ELSE Idle]
    /\ exited = FALSE
    /\ scan = [pc |-> "idle", n |-> 0, sources |-> <<>>, out |-> <<>>]
    /\ resolve = [of |-> "none", pc |-> "idle", seen |-> <<>>, found |-> 0]
    /\ twin = [pc |-> "idle"]
    /\ extraction = [pc |-> "idle"]
    /\ panel = [messages |-> <<>>, isLoading |-> FALSE, requests |-> {}, asked |-> 0, inits |-> 0]
    /\ timing = [pc |-> "idle", elapsed |-> 0, attempts |-> 0, client |-> "idle"]

\* ------------------------------------------------------------- helpers

\* A context that was launched and is not yet closed.
Live(c) == ctx[c] \in {"live", "closing"}

LiveCtxs == {c \in Ctxs : Live(c)}

\* What an awaited operation on context c's page may do: it can only return
\* while the context is not closed, and it can always throw (timeout, network).
Outcomes(c) == (IF c # 0 /\ Live(c) THEN {"ok"} ELSE {}) \cup Throwables

\* A probe whose exceptions are swallowed (isVisible in a try/catch): it can
\* only report true on a page that still answers.
Probe(c) == IF c # 0 /\ Live(c) THEN BOOLEAN ELSE {FALSE}

Set(p, rec) == proc' = [proc EXCEPT ![p] = rec]

\* The record of a process that invokes a page operation on its captured
\* handle: the invocation is remembered when the handle was closed under it.
Invoke(rec, pc) ==
    [rec EXCEPT !.pc = pc, !.touched = TRUE,
                !.usedStale = rec.usedStale \/ rec.invalidated]

\* saveDebugScreenshot(page, label): the screenshot is requested under the
\* label; a failure to take it is logged and swallowed.
Shot(rec, label) == [rec EXCEPT !.shot = label]

\* error instanceof Error ? error.message : 'Unknown error'
ErrorMessageUnchecked(t) ==
    IF t = "Error" THEN Str(<<"thrown message">>) ELSE Undefined

ErrorMessage(t) ==
    IF t = "Error" THEN Str(<<"thrown message">>) ELSE Str(<<"Unknown error">>)

\* ------------------------------------------------- handlers' replies

\* The tool handler's catch: ZodError -> InvalidParams, McpError rethrown,
\* anything else -> InternalError.
McpError(code) == [kind |-> "McpError", code |-> code]

ToolContent(body) == [kind |-> "content", body |-> body]

HttpJson(status, body) == [kind |-> "http", status |-> status, body |-> body]

IsTool(op) == op \in {"tool_search", "tool_pro", "tool_init"}
IsSearchOp(op) == op \in {"tool_search", "tool_pro", "http_search"}
IsInitOp(op) == op \in {"tool_init", "http_init"}

\* A request whose handler is about to reply: the locals of the call are gone.
Finished(rec) ==
    [rec EXCEPT !.pc = "replied", !.page = 0, !.attempts = 0, !.via = "none",
                !.answer = Undefined, !.query = Undefined, !.mode = Undefined,
                !.checks = 0, !.visibleAt = 0, !.timedOut = FALSE,
                !.inputFound = "unknown",
                !.navs = 0, !.clears = 0, !.types = 0, !.submits = 0]

\* search() returned `result` to its handler, which replies with it.
SearchReturned(rec, result) ==
    [Finished(rec) EXCEPT !.outcome = "returned", !.result = result,
                !.reply = IF IsTool(rec.op) THEN ToolContent(result)
                          ELSE HttpJson(200, result)]

\* An exception reached the handler's catch block.
HandlerCaught(rec, t) ==
    [Finished(rec) EXCEPT !.thrown = t,
                !.reply = IF IsTool(rec.op) THEN McpError("InternalError")
                          ELSE HttpJson(500, [success |-> FALSE, error |-> ErrorMessage(t)])]

\* ----------------------------------------------------------- search, entry

\* search() from its first line to its first await, on a session that exists:
\* the page is captured and page.goto is invoked.
SearchOnSession(rec, sess) ==
    IF sess = 0
    THEN SearchReturned(rec, [success |-> FALSE,
                              error |-> Str(<<"Failed to initialize browser session">>)])
    ELSE Invoke([rec EXCEPT !.page = sess, !.navs = @ + 1], "goto")

\* ------------------------------------------------------------ initialize

\* initialize() up to its first await: a no-op on an existing session,
\* otherwise chromium.launchPersistentContext is invoked.
InitializeReturned(rec, sess) ==
    CASE rec.op = "startup" -> [rec EXCEPT !.pc = "done"]
      [] IsSearchOp(rec.op) -> SearchOnSession(rec, sess)
      [] OTHER -> [Finished(rec) EXCEPT
                     !.reply = IF IsTool(rec.op)
                               THEN ToolContent([success |-> TRUE])
                               ELSE HttpJson(200, [success |-> TRUE])]

\* initialize() rejected with t: main() logs it, search() lets it escape to the
\* handler (the call at line 477 is outside the try block), init lets it escape.
InitializeThrew(rec, t) ==
    CASE rec.op = "startup" -> [rec EXCEPT !.pc = "done", !.thrown = t, !.initFailed = TRUE]
      [] IsSearchOp(rec.op) ->
            HandlerCaught([rec EXCEPT !.outcome = "threw", !.initFailed = TRUE], t)
      [] OTHER -> HandlerCaught([rec EXCEPT !.initFailed = TRUE], t)

initializeUnguarded(rec, sess) ==
    [rec EXCEPT !.pc = "launching", !.touched = TRUE]

initialize(rec, sess) ==
    IF sess # 0
    THEN InitializeReturned([rec EXCEPT !.noop = TRUE], sess)
    ELSE [rec EXCEPT !.pc = "launching", !.touched = TRUE]

\* launchPersistentContext resolved: a new context is live, and the setup up to
\* page.goto is invoked on its page.
LaunchDone(p, maxCtx) ==
    /\ ~exited
    /\ proc[p].pc = "launching"
    /\ \E c \in 1..maxCtx :
        /\ ctx[c] = "none"
        /\ \A d \in Ctxs : d < c => ctx[d] # "none"
        /\ ctx' = [ctx EXCEPT ![c] = "live"]
        /\ Set(p, [proc[p] EXCEPT !.pc = "init_goto", !.page = c])
    /\ UNCHANGED <<session, exited, scan, resolve, aside>>

\* launchPersistentContext rejected: no context exists.
LaunchThrew(p) ==
    /\ ~exited
    /\ proc[p].pc = "launching"
    /\ \E t \in Throwables : Set(p, InitializeThrew(proc[p], t))
    /\ UNCHANGED <<session, ctx, exited, scan, resolve, aside>>

\* newPage, addInitScript, goto, waitForTimeout(3000) and the 'init' screenshot
\* resolved; the sign-in and cookie probes follow.
InitGotoDone(p) ==
    /\ ~exited
    /\ proc[p].pc = "init_goto"
    /\ Live(proc[p].page)
    /\ Set(p, Shot([proc[p] EXCEPT !.pc = "init_probe"], "init"))
    /\ UNCHANGED <<session, ctx, exited, scan, resolve, aside>>

\* One of them rejected: initialize rejects, and the context it launched is
\* neither closed nor stored.
InitGotoThrew(p) ==
    /\ ~exited
    /\ proc[p].pc = "init_goto"
    /\ \E t \in Throwables : Set(p, InitializeThrew([proc[p] EXCEPT !.page = 0], t))
    /\ UNCHANGED <<session, ctx, exited, scan, resolve, aside>>

\* The probes resolved (their exceptions are swallowed): this.session is
\* assigned and initialize returns to its caller.
InitProbeDone(p) ==
    /\ ~exited
    /\ proc[p].pc = "init_probe"
    /\ session' = proc[p].page
    /\ Set(p, InitializeReturned([proc[p] EXCEPT !.page = 0], proc[p].page))
    /\ UNCHANGED <<ctx, exited, scan, resolve, aside>>

\* --------------------------------------------------------------- startup

\* main(): server.connect resolved, perplexity.initialize() is called.
Startup ==
    /\ ~exited
    /\ proc[Main].pc = "connecting"
    /\ Set(Main, initialize(proc[Main], session))
    /\ UNCHANGED <<session, ctx, exited, scan, resolve, aside>>

\* ----------------------------------------------------------------- close

\* A search that captured context c's page and has not returned yet.
HoldsPage(rec, c) ==
    /\ IsSearchOp(rec.op)
    /\ rec.page = c
    /\ rec.pc \notin {"idle", "launching", "init_goto", "init_probe", "replied"}

\* close() up to its await, on a session that exists: context.close() is
\* invoked on the session's context; the searches that captured its page are
\* not told.
CloseInvoked(p, rec) ==
    /\ session # 0
    /\ ctx' = [ctx EXCEPT ![session] = IF @ = "live" THEN "closing" ELSE @]
    /\ proc' = [q \in Procs |->
                  IF q = p THEN [rec EXCEPT !.pc = "closing", !.prior = session, !.touched = TRUE]
                  ELSE IF HoldsPage(proc[q], session)
                       THEN [proc[q] EXCEPT !.invalidated = TRUE]
                       ELSE proc[q]]
    /\ UNCHANGED <<session, exited, scan, resolve, aside>>

\* perplexity_init / POST /init: close() then initialize().  With no session
\* close() returns at once and initialize() launches.
InitRequest(p, op) ==
    /\ ~exited
    /\ proc[p].pc = "idle"
    /\ LET rec == [proc[p] EXCEPT !.op = op]
       IN IF session # 0
          THEN CloseInvoked(p, rec)
          ELSE /\ Set(p, initialize(rec, session))
               /\ UNCHANGED <<session, ctx, exited, scan, resolve, aside>>

\* context.close() resolved inside an init request: this.session = null, then
\* initialize() runs up to its launch.
InitCloseDoneLeavesOpen(p) ==
    /\ ~exited
    /\ proc[p].pc = "closing"
    /\ IsInitOp(proc[p].op)
    /\ session' = 0
    /\ Set(p, initialize(proc[p], 0))
    /\ UNCHANGED <<ctx, exited, scan, resolve, aside>>

InitCloseDone(p) ==
    /\ ~exited
    /\ proc[p].pc = "closing"
    /\ IsInitOp(proc[p].op)
    /\ ctx' = [ctx EXCEPT ![proc[p].prior] = "closed"]
    /\ session' = 0
    /\ Set(p, initialize(proc[p], 0))
    /\ UNCHANGED <<exited, scan, resolve, aside>>

\* context.close() rejected inside an init request: close() rejects before its
\* assignment, and the handler's catch replies with the error.
InitCloseThrew(p) ==
    /\ ~exited
    /\ proc[p].pc = "closing"
    /\ IsInitOp(proc[p].op)
    /\ \E t \in Throwables : Set(p, HandlerCaught(proc[p], t))
    /\ UNCHANGED <<session, ctx, exited, scan, resolve, aside>>

\* SIGINT / SIGTERM: close() then process.exit(0).
Signal(p) ==
    /\ ~exited
    /\ proc[p].pc = "idle"
    /\ LET rec == [proc[p] EXCEPT !.op = "signal"]
       IN IF session # 0
          THEN CloseInvoked(p, rec)
          ELSE /\ Set(p, [rec EXCEPT !.pc = "exited"])
               /\ exited' = TRUE
               /\ UNCHANGED <<session, ctx, scan, resolve, aside>>

SignalCloseDone(p) ==
    /\ ~exited
    /\ proc[p].pc = "closing"
    /\ proc[p].op = "signal"
    /\ ctx' = [ctx EXCEPT ![proc[p].prior] = "closed"]
    /\ session' = 0
    /\ Set(p, [proc[p] EXCEPT !.pc = "exited"])
    /\ exited' = TRUE
    /\ UNCHANGED <<scan, resolve, aside>>

\* context.close() rejected inside a signal handler: the handler's promise
\* rejects unhandled, which ends the process or is only reported, as the
\* runtime is configured.
SignalCloseThrew(p) ==
    /\ ~exited
    /\ proc[p].pc = "closing"
    /\ proc[p].op = "signal"
    /\ \E t \in Throwables, ends \in BOOLEAN :
        /\ Set(p, [proc[p] EXCEPT !.pc = IF ends THEN "exited" ELSE "replied", !.thrown = t])
        /\ exited' = ends
    /\ UNCHANGED <<session, ctx, scan, resolve, aside>>

\* The reply was sent; the slot is free for the next request.
Respond(p) ==
    /\ ~exited
    /\ proc[p].pc = "replied"
    /\ Set(p, Idle)
    /\ UNCHANGED <<session, ctx, exited, scan, resolve, aside>>

\* ------------------------------------------------------ input validation

IsString(x) == x.t = "string"

\* z.string().min(1)
ZodStringMin1Lax(x) == IsString(x)

ZodStringMin1(x) == IsString(x) /\ Len(x.v) >= 1

\* z.enum(values).optional(): undefined passes, otherwise one of the values.
ZodEnumOptional(x, values) ==
    x = Undefined \/ (IsString(x) /\ Len(x.v) = 1 /\ x.v[1] \in values)

\* querySchema.parse(args) of perplexity_search; ok = FALSE is a ZodError.
ParseSearchArgs(args) ==
    IF args = Undefined
    THEN [ok |-> FALSE]
    ELSE IF ZodStringMin1(args.query) /\ ZodEnumOptional(args.mode, Modes)
         THEN [ok |-> TRUE, query |-> args.query,
               mode |-> IF args.mode = Undefined THEN Str(<<"concise">>) ELSE args.mode]
         ELSE [ok |-> FALSE]

\* proSchema.parse(args) of perplexity_pro_search.
ParseProArgs(args) ==
    IF args = Undefined
    THEN [ok |-> FALSE]
    ELSE IF ZodStringMin1(args.query) /\ ZodEnumOptional(args.focus, Focuses)
         THEN [ok |-> TRUE, query |-> args.query, focus |-> args.focus]
         ELSE [ok |-> FALSE]

\* `[${parsed.focus}] ${parsed.query}` when a focus is given.
ProSearchQueryNoTag(parsed) == parsed.query

ProSearchQuery(parsed) ==
    IF Truthy(parsed.focus)
    THEN Str(<<"[">> \o parsed.focus.v \o <<"] ">> \o parsed.query.v)
    ELSE parsed.query

\* options.mode || 'concise'
SearchMode(mode) == IF Truthy(mode) THEN mode ELSE Str(<<"concise">>)

\* search(query, {mode}) from its first line to its first await.
search(rec, query, mode) ==
    LET r == [rec EXCEPT !.query = query, !.mode = SearchMode(mode), !.calls = @ + 1]
    IN IF session = 0
       THEN initialize(r, session)
       ELSE SearchOnSession(r, session)

\* ------------------------------------------------------ request handlers

\* CallToolRequest perplexity_search.
ToolSearch(p, inputs) ==
    /\ ~exited
    /\ proc[p].pc = "idle"
    /\ \E args \in inputs :
        LET rec == [proc[p] EXCEPT !.op = "tool_search", !.input = args]
            parsed == ParseSearchArgs(args)
        IN Set(p, IF parsed.ok
                  THEN search(rec, parsed.query, parsed.mode)
                  ELSE [Finished(rec) EXCEPT !.reply = McpError("InvalidParams")])
    /\ UNCHANGED <<session, ctx, exited, scan, resolve, aside>>

\* CallToolRequest perplexity_pro_search.
ToolProSearch(p, inputs) ==
    /\ ~exited
    /\ proc[p].pc = "idle"
    /\ \E args \in inputs :
        LET rec == [proc[p] EXCEPT !.op = "tool_pro", !.input = args]
            parsed == ParseProArgs(args)
        IN Set(p, IF parsed.ok
                  THEN search(rec, ProSearchQuery(parsed), Str(<<"deep">>))
                  ELSE [Finished(rec) EXCEPT !.reply = McpError("InvalidParams")])
    /\ UNCHANGED <<session, ctx, exited, scan, resolve, aside>>

\* POST /search.
HttpSearch(p, inputs) ==
    /\ ~exited
    /\ proc[p].pc = "idle"
    /\ \E body \in inputs :
        LET rec == [proc[p] EXCEPT !.op = "http_search", !.input = body]
        IN Set(p, IF ~Truthy(body.query)
                  THEN [Finished(rec) EXCEPT
                          !.reply = HttpJson(400, [error |-> Str(<<"Query is required">>)])]
                  ELSE search(rec, body.query, body.mode))
    /\ UNCHANGED <<session, ctx, exited, scan, resolve, aside>>

\* --------------------------------------------------- source extraction

NullHref == -1
OwnDomainHref == 0

Min(a, b) == IF a < b THEN a ELSE b

\* The sequences over S of length n at most.
SeqsUpTo(S, n) == UNION {[1..k -> S] : k \in 0..n}

\* href.includes('perplexity.ai')
IncludesOwnDomain(href) == href = OwnDomainHref

HasUrl(sources, href) == \E i \in 1..Len(sources) : sources[i].url = href

\* One iteration of the loop over the links: getAttribute and innerText may
\* throw (the link is skipped); text.trim().substring(0, 100) is the title.
ScanLinkNoDedup(sources, link) ==
    IF link.throws
    THEN sources
    ELSE IF /\ link.href # NullHref
            /\ link.len > 0
            /\ link.trim > 0
            /\ link.len < MaxTitleText
            /\ ~IncludesOwnDomain(link.href)
         THEN Append(sources, [title |-> Min(link.trim, MaxTitleLen), url |-> link.href])
         ELSE sources

ScanLink(sources, link) ==
    IF link.throws
    THEN sources
    ELSE IF /\ link.href # NullHref
            /\ link.len > 0
            /\ link.trim > 0
            /\ link.len < MaxTitleText
            /\ ~IncludesOwnDomain(link.href)
            /\ ~HasUrl(sources, link.href)
         THEN Append(sources, [title |-> Min(link.trim, MaxTitleLen), url |-> link.href])
         ELSE sources

RECURSIVE ScanLinks(_, _)
ScanLinks(sources, links) ==
    IF links = <<>> THEN sources
    ELSE ScanLinks(ScanLink(sources, Head(links)), Tail(links))

\* links.slice(0, 15)
SliceLinksAll(links) == links

SliceLinks(links) == SubSeq(links, 1, Min(Len(links), MaxLinksScanned))

\* sources.slice(0, 10)
SliceSources(sources) == SubSeq(sources, 1, Min(Len(sources), MaxSources))

\* The sources of the returned result for the links found on the page.
ExtractSources(links) == SliceSources(ScanLinks(<<>>, SliceLinks(links)))

\* ---------------------------------------------------------- search, steps

DebugNote == Str(<<"Screenshot saved to debug-screenshots/">>)

\* The catch block of search(): the error's message is taken and the 'error'
\* screenshot is invoked.
Caught(rec, t) ==
    Invoke(Shot([rec EXCEPT !.thrown = t, !.attempts = 0, !.via = "none",
                            !.answer = Undefined, !.checks = 0, !.visibleAt = 0,
                            !.timedOut = FALSE, !.inputFound = "unknown",
                            !.navs = 0, !.clears = 0, !.types = 0, !.submits = 0],
                "error"),
           "errshot")

\* An awaited page operation of search() resolved: `next` when it returned,
\* the catch block when it threw.
Step(p, from, next) ==
    /\ ~exited
    /\ proc[p].pc = from
    /\ \E o \in Outcomes(proc[p].page) :
        Set(p, IF o = "ok" THEN next ELSE Caught(proc[p], o))
    /\ UNCHANGED <<session, ctx, exited, scan, resolve, aside>>

\* page.goto, waitForTimeout(2000), 'before-search' screenshot; then
\* findSearchInput starts probing.
GotoDone(p) == Step(p, "goto", Invoke(Shot(proc[p], "before-search"), "findInput"))

\* `if (!searchInput)`: null ends the call with the 'no-input-found'
\* screenshot and a failure result; otherwise the locator is clicked.
AfterFindInputGoesOn(rec, found) ==
    Invoke([rec EXCEPT !.inputFound = IF found THEN "yes" ELSE "no"], "focus")

AfterFindInput(rec, found) ==
    IF found
    THEN Invoke([rec EXCEPT !.inputFound = "yes", !.clears = @ + 1], "focus")
    ELSE [SearchReturned(Shot([rec EXCEPT !.touched = TRUE], "no-input-found"),
                [success |-> FALSE,
                 error |-> Str(<<"Could not find search input on page.">>),
                 debug |-> DebugNote])
            EXCEPT !.inputFound = "no"]

\* findSearchInput returned a locator or null.
FindInputDone(p) ==
    /\ ~exited
    /\ proc[p].pc = "findInput"
    /\ \E found \in Probe(proc[p].page) : Set(p, AfterFindInput(proc[p], found))
    /\ UNCHANGED <<session, ctx, exited, scan, resolve, aside>>

\* click, waitForTimeout(300), Control+a, Backspace, waitForTimeout(300); then
\* locator.type(query).
FocusDoneThenExtract(p) == Step(p, "focus", Invoke(proc[p], "extract"))

FocusDone(p) == Step(p, "focus", Invoke([proc[p] EXCEPT !.types = @ + 1], "type"))

\* locator.type(query, {delay: 20}) and waitForTimeout(500); type rejects a
\* query that is not a string.  Then findSubmitButton starts probing.
TypeDone(p) ==
    /\ ~exited
    /\ proc[p].pc = "type"
    /\ \E o \in Outcomes(proc[p].page) :
        /\ o = "ok" => IsString(proc[p].query)
        /\ Set(p, IF o = "ok" THEN Invoke(proc[p], "findSubmit") ELSE Caught(proc[p], o))
    /\ UNCHANGED <<session, ctx, exited, scan, resolve, aside>>

\* `if (submitButton)`: the button is clicked, otherwise Enter is pressed;
\* either is one submission.
AfterFindSubmitBoth(rec, found) ==
    Invoke([rec EXCEPT !.via = "click", !.submits = @ + 2], "submit")

AfterFindSubmit(rec, found) ==
    Invoke([rec EXCEPT !.via = IF found THEN "click" ELSE "enter", !.submits = @ + 1],
           "submit")

\* findSubmitButton returned a locator or null.
FindSubmitDone(p) ==
    /\ ~exited
    /\ proc[p].pc = "findSubmit"
    /\ \E found \in Probe(proc[p].page) : Set(p, AfterFindSubmit(proc[p], found))
    /\ UNCHANGED <<session, ctx, exited, scan, resolve, aside>>

\* The click or key press and waitForTimeout(2000); the polling loop starts
\* with attempts = 0 and its first isResponseComplete.
SubmitDone(p) ==
    Step(p, "submit", Invoke([proc[p] EXCEPT !.attempts = 0, !.via = "none"], "pollCheck"))

\* while (attempts < maxAttempts)
LoopContinuesOneMore(attempts) == attempts <= maxAttempts

LoopContinues(attempts) == attempts < maxAttempts

\* if (attempts >= maxAttempts): the timeout log and the 'timeout' screenshot.
TimedOut(attempts) == attempts >= maxAttempts

\* The loop was left with `attempts`: the timeout branch is taken or not, then
\* waitForTimeout(1000) is invoked.
LoopLeft(rec) ==
    IF TimedOut(rec.attempts)
    THEN Invoke(Shot([rec EXCEPT !.timedOut = TRUE], "timeout"), "settle")
    ELSE Invoke(rec, "settle")

\* `if (isComplete) break;` otherwise waitForTimeout(2000) is invoked.  The
\* check is counted, and the first one that reported visible is remembered.
AfterCheckNoBreak(rec, isComplete) ==
    Invoke([rec EXCEPT !.checks = @ + 1,
                       !.visibleAt = IF isComplete /\ @ = 0 THEN rec.checks + 1 ELSE @],
           "pollWait")

AfterCheck(rec, isComplete) ==
    LET r == [rec EXCEPT !.checks = @ + 1,
                         !.visibleAt = IF isComplete THEN rec.checks + 1 ELSE @]
    IN IF isComplete THEN LoopLeft(r) ELSE Invoke(r, "pollWait")

\* isResponseComplete returned (false when isVisible threw).  The indicator
\* shows by check number `latest` at the latest.
PollCheckDone(p, latest) ==
    /\ ~exited
    /\ proc[p].pc = "pollCheck"
    /\ \E isComplete \in Probe(proc[p].page) :
        /\ (Live(proc[p].page) /\ proc[p].attempts + 1 >= latest) => isComplete
        /\ Set(p, AfterCheck(proc[p], isComplete))
    /\ UNCHANGED <<session, ctx, exited, scan, resolve, aside>>

\* waitForTimeout(2000) resolved: attempts++, a 'waiting' screenshot every
\* tenth attempt, then the loop condition.
PollWaitDone(p) ==
    Step(p, "pollWait",
         LET n == proc[p].attempts + 1
             r == IF n % 10 = 0
                  THEN Shot([proc[p] EXCEPT !.attempts = n], "waiting")
                  ELSE [proc[p] EXCEPT !.attempts = n]
         IN IF LoopContinues(r.attempts) THEN Invoke(r, "pollCheck") ELSE LoopLeft(r))

\* waitForTimeout(1000) resolved; extractAnswer runs.
SettleDone(p) == Step(p, "settle", Invoke(proc[p], "extract"))

\* extractAnswer returned (the empty string when every strategy failed or
\* threw), the 'response' screenshot was taken; the links are read.
ExtractDone(p, answers) ==
    /\ ~exited
    /\ proc[p].pc = "extract"
    /\ \E a \in (IF Live(proc[p].page) THEN answers ELSE {Str(EmptyString)}) :
        Set(p, Invoke(Shot([proc[p] EXCEPT !.answer = a], "response"), "sources"))
    /\ UNCHANGED <<session, ctx, exited, scan, resolve, aside>>

\* answer || 'No answer received from Perplexity'
AnswerAsExtracted(a) == a

AnswerOrPlaceholder(a) ==
    IF Truthy(a) THEN a ELSE Str(<<"No answer received from Perplexity">>)

\* The links were read (none when locator.all threw) and search returns its
\* success result.
SourcesDone(p, pages) ==
    /\ ~exited
    /\ proc[p].pc = "sources"
    /\ \E links \in (IF Live(proc[p].page) THEN pages ELSE {}) \cup {<<>>} :
        Set(p, SearchReturned(proc[p],
                  [success |-> TRUE,
                   answer |-> AnswerOrPlaceholder(proc[p].answer),
                   sources |-> ExtractSources(links)]))
    /\ UNCHANGED <<session, ctx, exited, scan, resolve, aside>>

\* The 'error' screenshot was taken (saveDebugScreenshot never throws) and
\* search returns its failure result.
CatchDone(p) ==
    /\ ~exited
    /\ proc[p].pc = "errshot"
    /\ Set(p, SearchReturned(proc[p],
                [success |-> FALSE,
                 error |-> ErrorMessage(proc[p].thrown),
                 debug |-> DebugNote]))
    /\ UNCHANGED <<session, ctx, exited, scan, resolve, aside>>

\* -------------------------------------------------- the environment's data

Link(href, len, trim) == [href |-> href, len |-> len, trim |-> trim, throws |-> FALSE]

\* What extractAnswer may find on a page that answers.
Answers == {Str(EmptyString), Str(<<"answer text">>)}

\* Link lists of the pages met under Spec: none, and external links with a
\* repeated href, an own-domain link and a blank title.
SpecPages ==
    {<<>>,
     <<Link(1, 12, 10), Link(OwnDomainHref, 4, 4), Link(2, 150, 150), Link(1, 12, 10),
       Link(3, 2, 0)>>}

\* The values a request may carry in a field: missing, not a string, the
\* empty string, a well-formed value, a value outside the enumeration.
QueryVals == {Undefined, Num(5), Str(EmptyString), Str(QueryText)}
ModeVals == {Undefined, Num(5), Str(<<"bogus">>)} \cup {Str(<<m>>) : m \in Modes}
FocusVals == {Undefined, Num(5), Str(<<"bogus">>)} \cup {Str(<<f>>) : f \in Focuses}

\* request.params.arguments of a tool call (it may be missing altogether).
ToolSearchInputs == {Undefined} \cup [query : QueryVals, mode : ModeVals]
ToolProInputs == {Undefined} \cup [query : QueryVals, focus : FocusVals]

\* req.body of POST /search.
HttpInputs == [query : QueryVals, mode : ModeVals]

\* The one well-formed request of the runs with concurrent requests.
PlainInputs == {[query |-> Str(QueryText), mode |-> Undefined]}

\* ------------------------------------------------------ the specification

InitializeStep(p, maxCtx) ==
    \/ LaunchDone(p, maxCtx)
    \/ LaunchThrew(p)
    \/ InitGotoDone(p)
    \/ InitGotoThrew(p)
    \/ InitProbeDone(p)

SearchStep(p, latest, answers, pages) ==
    \/ GotoDone(p)
    \/ FindInputDone(p)
    \/ FocusDone(p)
    \/ TypeDone(p)
    \/ FindSubmitDone(p)
    \/ SubmitDone(p)
    \/ PollCheckDone(p, latest)
    \/ PollWaitDone(p)
    \/ SettleDone(p)
    \/ ExtractDone(p, answers)
    \/ SourcesDone(p, pages)
    \/ CatchDone(p)

CloseStep(p) ==
    \/ InitCloseDone(p)
    \/ InitCloseThrew(p)
    \/ SignalCloseDone(p)
    \/ SignalCloseThrew(p)

\* The server with requests arriving in `slots`, at most maxCtx launches, and
\* the environment's data as given.
Server(slots, maxCtx, latest, answers, pages, toolIn, proIn, httpIn) ==
    \/ Startup
    \/ \E p \in {Main} \cup slots : InitializeStep(p, maxCtx)
    \/ \E p \in slots :
        \/ ToolSearch(p, toolIn)
        \/ ToolProSearch(p, proIn)
        \/ HttpSearch(p, httpIn)
        \/ InitRequest(p, "tool_init")
        \/ InitRequest(p, "http_init")
        \/ Signal(p)
        \/ SearchStep(p, latest, answers, pages)
        \/ CloseStep(p)
        \/ Respond(p)

\* One request at a time, beside the startup routine; every kind of input.
Next ==
    Server({1}, MaxCtx, MaxVisibleAt, Answers, SpecPages,
           ToolSearchInputs, ToolProInputs, HttpInputs)

Spec == Init /\ [][Next]_vars

\* Concurrent requests over HTTP and the tool protocol, with init requests and
\* signals.
NextConcurrent ==
    \/ Startup
    \/ \E p \in Procs : InitializeStep(p, MaxCtxConcurrent)
    \/ \E p \in Slots :
        \/ ToolSearch(p, PlainInputs)
        \/ HttpSearch(p, PlainInputs)
        \/ InitRequest(p, "http_init")
        \/ Signal(p)
        \/ SearchStep(p, MaxVisibleAt, {Str(<<"answer text">>)}, {<<>>})
        \/ CloseStep(p)
        \/ Respond(p)

SpecConcurrent == Init /\ [][NextConcurrent]_vars

\* ---------------------------------------------- the polling loop, in full

\* No check by which the indicator is sure to show: it may show at any check
\* or never.
NoDeadline == maxAttempts + 1

\* One search at a time on a page whose completion indicator may show at any
\* check or not at all.
NextPoll ==
    \/ Startup
    \/ \E p \in {Main, 1} : InitializeStep(p, MaxCtxConcurrent)
    \/ HttpSearch(1, PlainInputs)
    \/ SearchStep(1, NoDeadline, Answers, {<<>>})
    \/ Respond(1)

SpecPoll == Init /\ [][NextPoll]_vars

\* The same, with every awaited operation returning or throwing in the end:
\* a pending continuation of initialize or of search is eventually run.
SpecPollFair ==
    /\ SpecPoll
    /\ WF_vars(InitializeStep(Main, MaxCtxConcurrent))
    /\ WF_vars(InitializeStep(1, MaxCtxConcurrent))
    /\ WF_vars(SearchStep(1, NoDeadline, Answers, {<<>>}))

\* ------------------------------------------- the loop over the links, alone

\* The texts a link may show, as <<length, trimmed length>>: empty, blank,
\* short, long enough to be cut to 100 characters, and too long to be kept.
LongText == <<150, 150>>
LinkTexts == {<<0, 0>>, <<3, 0>>, <<12, 10>>, LongText, <<200, 200>>}

\* The hrefs the next link may carry.  The loop only compares an href with
\* the urls it has kept and with its own domain, so the external URLs are
\* numbered in the order they are kept: the next link carries a kept URL or
\* one that is not kept yet.
NextHrefs == {NullHref, OwnDomainHref} \cup 1..(Len(scan.sources) + 1)

LongTitles(sources) == Cardinality({i \in 1..Len(sources) : sources[i].title = MaxTitleLen})

\* The links the page may show next: one whose reads throw, or one with an
\* href and a text.
NextLinks ==
    {[href |-> NullHref, len |-> 0, trim |-> 0, throws |-> TRUE]}
    \cup {[href |-> href, len |-> text[1], trim |-> text[2], throws |-> FALSE] :
            href \in NextHrefs,
            text \in {t \in LinkTexts :
                        t = LongText => LongTitles(scan.sources) < MaxLongTitles}}

\* `for (const link of links.slice(0, 15))`: one more link is read.
ScanNext ==
    /\ scan.pc = "idle"
    /\ scan.n < MaxLinksScanned
    /\ \E link \in NextLinks :
        scan' = [scan EXCEPT !.n = @ + 1, !.sources = ScanLink(@, link)]
    /\ UNCHANGED <<session, ctx, proc, exited, resolve, aside>>

\* The links are exhausted (or fifteen were read): sources.slice(0, 10) is
\* returned.
ScanEnd ==
    /\ scan.pc = "idle"
    /\ scan' = [scan EXCEPT !.pc = "done", !.out = SliceSources(scan.sources)]
    /\ UNCHANGED <<session, ctx, proc, exited, resolve, aside>>

NextSources == ScanNext \/ ScanEnd

SpecSources == Init /\ [][NextSources]_vars

\* ------------------------------------------ source extraction on whole pages

\* The site's own links, as a page shows them before the answer.
OwnLinks(m) == [i \in 1..m |-> Link(OwnDomainHref, 12, 10)]

\* k links to distinct external pages, numbered 1..k.
FreshLinks(k) == [i \in 1..k |-> Link(i, 12, 10)]

\* An external URL that FreshLinks never carries.
OtherHref == 99

\* The links that may follow: one whose reads throw, one without href, a
\* repetition of the first external URL, and another URL with a long, a
\* blank, a padded and a too long text.
TailLinks ==
    {[href |-> NullHref, len |-> 0, trim |-> 0, throws |-> TRUE],
     Link(NullHref, 12, 10), Link(1, 12, 10),
     Link(OtherHref, 150, 150), Link(OtherHref, 3, 0),
     Link(OtherHref, 205, 190), Link(OtherHref, 200, 200)}

\* The lists page.locator('a[href^="http"]').all() may return.
PageLinks ==
    {OwnLinks(m) \o FreshLinks(k) \o tail :
        m \in 0..MaxOwnLinks, k \in 0..MaxFreshLinks, tail \in SeqsUpTo(TailLinks, MaxTailLinks)}

\* The source extraction of search() on one page, as a whole: the links
\* found, the sources pushed, and the sources of the returned result.
ScanPage ==
    /\ scan.pc = "idle"
    /\ scan.n = 0
    /\ \E links \in PageLinks :
        scan' = [pc |-> "returned", n |-> Len(SliceLinks(links)), links |-> links,
                 sources |-> ScanLinks(<<>>, SliceLinks(links)),
                 out |-> ExtractSources(links)]
    /\ UNCHANGED <<session, ctx, proc, exited, resolve, aside>>

\* The next search starts with an empty list of sources.
ScanReset ==
    /\ scan.pc = "returned"
    /\ scan' = [pc |-> "idle", n |-> 0, sources |-> <<>>, out |-> <<>>]
    /\ UNCHANGED <<session, ctx, proc, exited, resolve, aside>>

NextListing == ScanPage \/ ScanReset

SpecListing == Init /\ [][NextListing]_vars

\* --------------------------------------------- selector resolution, alone

\* The ordered strategies of findSearchInput, by their method names.
InputSelectors ==
    <<"textarea", "contenteditable", "role-textbox", "input-text",
      "placeholder-ask", "placeholder-ask-lower", "placeholder-question",
      "placeholder-search", "aria-ask", "aria-search", "prosemirror",
      "testid-search", "testid-input">>

\* The ordered locators of findSubmitButton.
SubmitSelectors ==
    <<"button[type=submit]", "button:has-text(Search)", "button[aria-label*=Search]",
      "button[aria-label*=Send]", "button:has-text(Ask)", "svg[class*=send]..",
      "[data-testid*=submit]", "[data-testid*=send]">>

SelectorsOf(which) == IF which = "input" THEN InputSelectors ELSE SubmitSelectors

\* What isVisible does on one locator: true, false, or an exception.
ProbeOutcomes == {"visible", "hidden", "throws"}

\* One iteration of `for (... of selectors)`: the locator's isVisible is
\* awaited inside try/catch; a visible one is returned (found is its index),
\* anything else moves on, and after the last entry null is returned
\* (found = 0).
ProbeNextLastWins(r, o) ==
    LET i == Len(r.seen) + 1
    IN [r EXCEPT !.seen = Append(@, o),
                 !.found = IF o = "visible" THEN i ELSE @,
                 !.pc = IF i = Len(SelectorsOf(r.of)) THEN "done" ELSE "probing"]

ProbeNext(r, o) ==
    LET i == Len(r.seen) + 1
    IN IF o = "visible"
       THEN [r EXCEPT !.seen = Append(@, o), !.found = i, !.pc = "done"]
       ELSE [r EXCEPT !.seen = Append(@, o),
                      !.pc = IF i = Len(SelectorsOf(r.of)) THEN "done" ELSE "probing"]

\* findSearchInput(page) or findSubmitButton(page) is called.
ResolveStart ==
    /\ resolve.pc = "idle"
    /\ \E which \in {"input", "submit"} :
        resolve' = [of |-> which, pc |-> "probing", seen |-> <<>>, found |-> 0]
    /\ UNCHANGED <<session, ctx, proc, exited, scan, aside>>

\* The next locator's isVisible resolved or rejected.
ResolveProbe ==
    /\ resolve.pc = "probing"
    /\ \E o \in ProbeOutcomes : resolve' = ProbeNext(resolve, o)
    /\ UNCHANGED <<session, ctx, proc, exited, scan, aside>>

NextResolve == ResolveStart \/ ResolveProbe

SpecResolve == Init /\ [][NextResolve]_vars

\* ------------------------------------- search() and its screenshots, twice

\* One run of search() on an existing session: its position, the page
\* actions it invoked, the captures that failed, and what it returned.
RunStart ==
    [pc |-> "goto", trace |-> <<"goto">>, attempts |-> 0, lost |-> FALSE,
     raised |-> FALSE, answer |-> Undefined, result |-> NoResult]

\* saveDebugScreenshot(page, label) in a run: page.screenshot is invoked in a
\* try block; when it fails the failure is logged and null is returned, and
\* no caller looks at the returned path.
saveDebugScreenshotRethrows(run, label, captured) ==
    [run EXCEPT !.trace = Append(@, "screenshot"),
                !.lost = @ \/ ~captured,
                !.raised = @ \/ ~captured]

saveDebugScreenshot(run, label, captured) ==
    [run EXCEPT !.trace = Append(@, "screenshot"),
                !.lost = @ \/ ~captured]

\* The run invokes its next page action.
Go(run, pc) == [run EXCEPT !.pc = pc, !.trace = Append(@, pc)]

\* The run returns `result`.
RunReturned(run, result) ==
    [run EXCEPT !.pc = "done", !.result = result, !.attempts = 0, !.answer = Undefined]

\* The catch block of search(): the 'error' screenshot, outside any try, and
\* the failure result; an exception raised there escapes the call.
RunCaught(run, captured) ==
    LET r == saveDebugScreenshot([run EXCEPT !.raised = FALSE,
                                             !.trace = Append(@, "catch")],
                                 "error", captured)
    IN IF r.raised
       THEN [r EXCEPT !.pc = "threw", !.attempts = 0, !.answer = Undefined]
       ELSE RunReturned(r, [success |-> FALSE, error |-> ErrorMessage("Error"),
                            debug |-> DebugNote])

\* A stretch of the try block that ends by a screenshot: an exception raised
\* by it is caught like any other.
Guarded(r, next, captured) == IF r.raised THEN RunCaught(r, captured) ELSE next

\* One stretch of search() between two awaits, as in the steps of the server
\* above: `o` is what the awaited page operation did (it returned or threw,
\* a probe found or not, the answer extracted) and `captured` tells whether
\* the screenshots of the stretch are taken.
FlowStep(run, o, captured) ==
    CASE run.pc \in {"done", "threw"} -> run
      [] run.pc \in {"goto", "focus", "type", "submit", "pollWait", "settle"} /\ ~o.ok ->
            RunCaught(run, captured)
      [] run.pc = "goto" /\ o.ok ->
            LET r == saveDebugScreenshot(run, "before-search", captured)
            IN Guarded(r, Go(r, "findInput"), captured)
      [] run.pc = "findInput" ->
            IF o.found
            THEN Go(run, "focus")
            ELSE LET r == saveDebugScreenshot(run, "no-input-found", captured)
                 IN Guarded(r, RunReturned(r, [success |-> FALSE,
                                error |-> Str(<<"Could not find search input on page.">>),
                                debug |-> DebugNote]),
                            captured)
      [] run.pc = "focus" /\ o.ok -> Go(run, "type")
      [] run.pc = "type" /\ o.ok -> Go(run, "findSubmit")
      [] run.pc = "findSubmit" ->
            [Go(run, "submit") EXCEPT !.trace = Append(@, IF o.found THEN "click" ELSE "enter")]
      [] run.pc = "submit" /\ o.ok -> Go(run, "pollCheck")
      [] run.pc = "pollCheck" ->
            IF o.found THEN Go(run, "settle") ELSE Go(run, "pollWait")
      [] run.pc = "pollWait" /\ o.ok ->
            LET n == run.attempts + 1
                r1 == IF n % 10 = 0
                      THEN saveDebugScreenshot([run EXCEPT !.attempts = n], "waiting", captured)
                      ELSE [run EXCEPT !.attempts = n]
                r2 == IF LoopContinues(n) \/ r1.raised
                      THEN r1
                      ELSE saveDebugScreenshot(r1, "timeout", captured)
            IN Guarded(r2, Go(r2, IF LoopContinues(n) THEN "pollCheck" ELSE "settle"), captured)
      [] run.pc = "settle" /\ o.ok -> Go(run, "extract")
      [] run.pc = "extract" ->
            LET r == saveDebugScreenshot([run EXCEPT !.answer = o.answer], "response", captured)
            IN Guarded(r, Go(r, "sources"), captured)
      [] run.pc = "sources" ->
            RunReturned(run, [success |-> TRUE,
                              answer |-> AnswerOrPlaceholder(run.answer),
                              sources |-> <<>>])

\* What the page does at one await.
PageOutcomes == [ok : BOOLEAN, found : BOOLEAN, answer : Answers]

\* search() is called twice on pages that behave alike.
TwinStart ==
    /\ twin.pc = "idle"
    /\ twin' = [pc |-> "running", a |-> RunStart, b |-> RunStart]
    /\ UNCHANGED <<server, extraction, panel, timing>>

\* Both runs take their next stretch: the page does the same in both, the
\* captures succeed or fail in each run on its own.
TwinStep ==
    /\ twin.pc = "running"
    /\ twin.a.pc \notin {"done", "threw"} \/ twin.b.pc \notin {"done", "threw"}
    /\ \E o \in PageOutcomes, ca, cb \in BOOLEAN :
        twin' = [twin EXCEPT !.a = FlowStep(@, o, ca), !.b = FlowStep(@, o, cb)]
    /\ UNCHANGED <<server, extraction, panel, timing>>

NextTwin == TwinStart \/ TwinStep

SpecTwin == Init /\ [][NextTwin]_vars

\* ------------------------------------------------- extractAnswer, alone

\* The container selectors of extractAnswer, in their order.
markdownSelectors ==
    <<"[class*=markdown]", "[class*=Markdown]", ".markdown-body", ".markdown-content",
      ".prose", "[class*=prose]", "article .prose", "[data-testid*=answer]",
      "[data-testid*=response]">>

\* An element as extractAnswer reads it: the length of its innerText, the
\* length of the text once trimmed, whether its class names navigation,
\* header or footer, and whether reading it throws.
Element(len, trim, nav) == [len |-> len, trim |-> trim, nav |-> nav, throws |-> FALSE]

ThrowingElement == [len |-> 0, trim |-> 0, nav |-> FALSE, throws |-> TRUE]

\* `text && text.length > 100` and `!isNavigation`
Accepted(e) == e.len > 100 /\ ~e.nav

\* The loop over the elements of one selector, inside the selector's try
\* block: the first accepted element is returned; an element whose read
\* throws ends the selector.
RECURSIVE ScanElements(_, _)
ScanElements(elems, i) ==
    IF i > Len(elems) THEN 0
    ELSE IF elems[i].throws THEN 0
    ELSE IF Accepted(elems[i]) THEN i
    ELSE ScanElements(elems, i + 1)

\* The loop over the selectors: `return text.trim()` for the first accepted
\* element.
RECURSIVE ScanSelectors(_, _)
ScanSelectors(containers, s) ==
    IF s > Len(containers) THEN [from |-> "none", sel |-> 0, idx |-> 0, len |-> 0]
    ELSE LET i == ScanElements(containers[s], 1)
         IN IF i # 0
            THEN [from |-> "container", sel |-> s, idx |-> i, len |-> containers[s][i].trim]
            ELSE ScanSelectors(containers, s + 1)

\* The children of main: the first of the longest texts, by
\* `text.length > largestText.length`; 0 when all are empty.
RECURSIVE Largest(_, _, _)
Largest(children, i, best) ==
    IF i > Len(children) THEN best
    ELSE Largest(children, i + 1,
                 IF children[i].len > (IF best = 0 THEN 0 ELSE children[best].len)
                 THEN i ELSE best)

\* The fallback on main: only when main is visible and nothing throws, and
\* only a text longer than 50 characters; `return largestText.trim()`.
MainFallback(main) ==
    IF main.state # "visible" THEN [from |-> "none", sel |-> 0, idx |-> 0, len |-> 0]
    ELSE LET i == Largest(main.children, 1, 0)
         IN IF i # 0 /\ main.children[i].len > 50
            THEN [from |-> "main", sel |-> 0, idx |-> i, len |-> main.children[i].trim]
            ELSE [from |-> "none", sel |-> 0, idx |-> 0, len |-> 0]

\* The fallback on the body text: the lines whose trimmed length is above 30,
\* the first 30 of them joined; body.lines is their number, -1 when the read
\* throws.  The length of the result is counted in lines.
BodyFallback(body) ==
    IF body.lines > 0
    THEN [from |-> "body", sel |-> 0, idx |-> 0, len |-> Min(body.lines, 30)]
    ELSE [from |-> "none", sel |-> 0, idx |-> 0, len |-> 0]

\* extractAnswer(page): what it returns and where from; len = 0 is the empty
\* string.
extractAnswer(page) ==
    LET c == ScanSelectors(page.containers, 1)
        m == MainFallback(page.main)
    IN IF c.from # "none" THEN c
       ELSE IF m.from # "none" THEN m
       ELSE BodyFallback(page.body)

\* The elements a selector may match: short, long, long and blank, each in an
\* answer or in a navigation block, and one that cannot be read.
ElementKinds ==
    {Element(t[1], t[2], nav) : t \in {<<40, 40>>, <<150, 150>>, <<150, 0>>}, nav \in BOOLEAN}
    \cup {ThrowingElement}

\* The pages extractAnswer is run on: the first selector matches up to
\* MaxElems elements, the second at most one, the others none.
ExtractPages ==
    [containers : {<<e1, e2>> \o [k \in 1..(Len(markdownSelectors) - 2) |-> <<>>] :
                     e1 \in SeqsUpTo(ElementKinds, MaxElems),
                     e2 \in SeqsUpTo(ElementKinds, 1)},
     main : [state : {"visible", "hidden", "throws"},
             children : SeqsUpTo({Element(40, 40, FALSE), Element(60, 60, FALSE),
                                  Element(60, 0, FALSE), Element(90, 90, FALSE)}, MaxElems)],
     body : [lines : {-1, 0, 2, 35}]]

\* extractAnswer runs on a page.
ExtractRun ==
    /\ extraction.pc = "idle"
    /\ \E page \in ExtractPages :
        extraction' = [pc |-> "done", page |-> page, out |-> extractAnswer(page)]
    /\ UNCHANGED <<server, twin, panel, timing>>

\* The next call starts.
ExtractReset ==
    /\ extraction.pc = "done"
    /\ extraction' = [pc |-> "idle"]
    /\ UNCHANGED <<server, twin, panel, timing>>

NextExtract == ExtractRun \/ ExtractReset

SpecExtract == Init /\ [][NextExtract]_vars

\* ------------------------------------------------- the editor extension

\* The queries the user may give: the empty string, white space, a text.
QueryKinds == {"empty", "blank", "text"}

\* A ChatMessage of the transcript: its role and the query it belongs to (for
\* an assistant message, the query whose response it shows, and whether the
\* response was an answer or an error).
ChatMessage(role, q, ok) == [role |-> role, q |-> q, ok |-> ok]

\* A request the extension has sent to the server and that has not answered:
\* POST /search or POST /init, who started it, and the number of the query.
Request(kind, by, q) == [kind |-> kind, by |-> by, q |-> q]

\* _handleSearch(query, mode) up to `await this.mcpClient.search(query, mode)`:
\* nothing for a blank query; otherwise the user message is pushed, the
\* transcript and loading = true are posted to the webview (which sets
\* isLoading), and the request is sent.
handleSearch(st, query, by) ==
    IF query # "text"
    THEN st
    ELSE [st EXCEPT !.messages = Append(@, ChatMessage("user", st.asked + 1, TRUE)),
                    !.isLoading = TRUE,
                    !.requests = @ \cup {Request("search", by, st.asked + 1)},
                    !.asked = @ + 1]

\* The webview's doSearch (Search button, Ctrl+Enter): the trimmed query is
\* posted unless it is empty or isLoading is set; the extension's message
\* handler then runs _handleSearch.
DoSearch ==
    /\ panel.asked < MaxAsked
    /\ \E query \in QueryKinds :
        panel' = IF query # "text" \/ panel.isLoading
                 THEN panel
                 ELSE handleSearch(panel, query, "panel")
    /\ UNCHANGED <<server, twin, extraction, timing>>

\* The commands perplexity.search and perplexity.proSearch: `if (query)`,
\* then chatProvider.search(query, mode), which runs _handleSearch.
CommandSearch ==
    /\ panel.asked < MaxAsked
    /\ \E query \in QueryKinds, by \in {"perplexity.search", "perplexity.proSearch"} :
        panel' = IF query = "empty" THEN panel ELSE handleSearch(panel, query, by)
    /\ UNCHANGED <<server, twin, extraction, timing>>

\* mcpClient.search returned, with the server's response or with the failure
\* result of its catch block: _handleSearch posts loading = false, pushes the
\* assistant message and posts the transcript.
SearchResponded ==
    /\ \E r \in panel.requests, ok \in BOOLEAN :
        /\ r.kind = "search"
        /\ panel' = [panel EXCEPT !.isLoading = FALSE,
                                  !.messages = Append(@, ChatMessage("assistant", r.q, ok)),
                                  !.requests = @ \ {r}]
    /\ UNCHANGED <<server, twin, extraction, timing>>

\* The webview's init button: the message handler runs _handleInit, which
\* posts loading = true and sends POST /init.
InitClicked ==
    /\ panel.inits < MaxInits
    /\ panel' = [panel EXCEPT !.isLoading = TRUE,
                              !.requests = @ \cup {Request("init", "panel", panel.inits + 1)},
                              !.inits = @ + 1]
    /\ UNCHANGED <<server, twin, extraction, timing>>

\* The command perplexity.initSession: mcpClient.initialize() is called
\* directly, nothing is posted to the webview.
CommandInit ==
    /\ panel.inits < MaxInits
    /\ panel' = [panel EXCEPT !.requests = @ \cup {Request("init", "perplexity.initSession",
                                                           panel.inits + 1)},
                              !.inits = @ + 1]
    /\ UNCHANGED <<server, twin, extraction, timing>>

\* mcpClient.initialize returned: _handleInit posts loading = false and the
\* result; the command only shows a notification.
InitResponded ==
    /\ \E r \in panel.requests :
        /\ r.kind = "init"
        /\ panel' = [panel EXCEPT !.isLoading = IF r.by = "panel" THEN FALSE ELSE @,
                                  !.requests = @ \ {r}]
    /\ UNCHANGED <<server, twin, extraction, timing>>

\* The webview's clear button: `this.messages = []`, and the transcript is
\* posted.
ClearClicked ==
    /\ panel' = [panel EXCEPT !.messages = <<>>]
    /\ UNCHANGED <<server, twin, extraction, timing>>

NextPanel ==
    \/ DoSearch
    \/ CommandSearch
    \/ SearchResponded
    \/ InitClicked
    \/ CommandInit
    \/ InitResponded
    \/ ClearClicked

SpecPanel == Init /\ [][NextPanel]_vars

\* ------------------------------------- a search against the client's timeout

\* The waits of search() before polling, in order: the position of search()
\* while it waits, the milliseconds, and the position after the wait.
WaitsBeforePolling ==
    <<[at |-> "goto", ms |-> GotoWait, next |-> "focus"],
      [at |-> "focus", ms |-> FocusWait, next |-> "clear"],
      [at |-> "clear", ms |-> ClearWait, next |-> "type"],
      [at |-> "type", ms |-> TypeWait, next |-> "submit"],
      [at |-> "submit", ms |-> SubmitWait, next |-> "poll"]>>

\* ms milliseconds pass while search() waits: the client's timer, set when
\* the request was sent, fires once the timeout is reached, and axios rejects
\* the request.
Elapse(t, ms) ==
    [t EXCEPT !.elapsed = @ + ms,
              !.client = IF @ = "waiting" /\ t.elapsed + ms >= ClientSearchTimeout
                         THEN "timeout" ELSE @]

\* McpClient.search posts the request; the server's search() starts on a
\* session that is ready.  Only the waits take time.
TimingStart ==
    /\ timing.pc = "idle"
    /\ timing' = [pc |-> "goto", elapsed |-> 0, attempts |-> 0, client |-> "waiting"]
    /\ UNCHANGED <<server, twin, extraction, panel>>

\* One of the waits before polling is over.
TimingWait ==
    /\ \E i \in 1..Len(WaitsBeforePolling) :
        /\ timing.pc = WaitsBeforePolling[i].at
        /\ timing' = [Elapse(timing, WaitsBeforePolling[i].ms)
                        EXCEPT !.pc = WaitsBeforePolling[i].next]
    /\ UNCHANGED <<server, twin, extraction, panel>>

\* One turn of the polling loop: the loop is left when the indicator shows or
\* after maxAttempts waits; otherwise search() waits and counts.
TimingPoll ==
    /\ timing.pc = "poll"
    /\ \E isComplete \in BOOLEAN :
        timing' = IF timing.attempts >= maxAttempts \/ isComplete
                  THEN [timing EXCEPT !.pc = "settle"]
                  ELSE [Elapse(timing, PollWait) EXCEPT !.attempts = @ + 1]
    /\ UNCHANGED <<server, twin, extraction, panel>>

\* The wait before extraction is over.
TimingSettle ==
    /\ timing.pc = "settle"
    /\ timing' = [Elapse(timing, SettleWait) EXCEPT !.pc = "respond"]
    /\ UNCHANGED <<server, twin, extraction, panel>>

\* search() returns and POST /search answers: the client takes the response
\* if its request is still pending.
TimingRespond ==
    /\ timing.pc = "respond"
    /\ timing' = [timing EXCEPT !.pc = "responded",
                                !.client = IF @ = "waiting" THEN "delivered" ELSE @]
    /\ UNCHANGED <<server, twin, extraction, panel>>

\* The next search.
TimingReset ==
    /\ timing.pc = "responded"
    /\ timing' = [pc |-> "idle", elapsed |-> 0, attempts |-> 0, client |-> "idle"]
    /\ UNCHANGED <<server, twin, extraction, panel>>

NextTiming ==
    \/ TimingStart
    \/ TimingWait
    \/ TimingPoll
    \/ TimingSettle
    \/ TimingRespond
    \/ TimingReset

SpecTiming == Init /\ [][NextTiming]_vars

\* ================================================================ claims

\* A field of a JS object that is present and not undefined.
NonNull(r, f) == f \in DOMAIN r /\ r[f] # Undefined

IsNonEmptyString(x) == x.t = "string" /\ x.v # EmptyString

\* The request's query as the caller gave it.
GivenQuery(rec) == IF rec.input = Undefined THEN Undefined ELSE rec.input.query

\* C1: every search call with a non-empty string query that returns yields
\* either success = true with an answer and no error, or success = false with
\* an error and no answer; never both absent, never both present.
C1_AnswerXorError ==
    \A p \in Slots :
        (proc[p].outcome = "returned" /\ IsNonEmptyString(GivenQuery(proc[p]))) =>
            LET r == proc[p].result
            IN \/ r.success /\ NonNull(r, "answer") /\ ~NonNull(r, "error")
               \/ ~r.success /\ NonNull(r, "error") /\ ~NonNull(r, "answer")

\* A search returned the failure built by its catch block from a thrown value
\* that is no Error.
C1_Witness ==
    \E p \in Slots :
        /\ proc[p].outcome = "returned"
        /\ IsNonEmptyString(GivenQuery(proc[p]))
        /\ proc[p].thrown = "NonError"
        /\ ~proc[p].result.success

\* C2: search never lets an exception escape to its caller: whatever stage
\* throws, the lazy initialization included, the call returns a result with
\* success = false whose error is the thrown error's message.
C2_SearchNeverThrows ==
    \A p \in Slots :
        (IsSearchOp(proc[p].op) /\ proc[p].pc = "replied" /\ proc[p].thrown # "none") =>
            /\ proc[p].outcome = "returned"
            /\ ~proc[p].result.success
            /\ proc[p].result.error = ErrorMessage(proc[p].thrown)

\* A search call that is between its page navigation and its return.
InSearchBody(rec) ==
    /\ IsSearchOp(rec.op)
    /\ rec.pc \in {"goto", "findInput", "focus", "type", "findSubmit", "submit",
                   "pollCheck", "pollWait", "settle", "extract", "sources", "errshot"}

\* C3: concurrent search requests are serialized: at any moment at most one
\* search call is between its page navigation and its return.
C3_SearchesSerialized ==
    Cardinality({p \in Slots : InSearchBody(proc[p])}) <= 1

\* No operation is in flight.
Quiescent ==
    \A p \in Procs : proc[p].pc \in {"idle", "done", "replied", "connecting"}

\* C4: at most one browser context is live at any time, and once the
\* operations in flight have ended every live context is the one the session
\* refers to.
C4_OneLiveContext ==
    ~exited =>
        /\ Cardinality(LiveCtxs) <= 1
        /\ Quiescent => \A c \in LiveCtxs : session = c

\* C5: the sources of a returned result hold no two entries with the same url
\* and at most 10 entries, whatever links the page shows.
C5_SourcesUniqueAtMostTen ==
    scan.pc = "done" =>
        /\ Len(scan.out) <= 10
        /\ \A i, j \in 1..Len(scan.out) : scan.out[i].url = scan.out[j].url => i = j

\* The loop kept more than ten sources, after meeting a kept href again, and
\* ten were returned.
C5_Witness ==
    /\ scan.pc = "done"
    /\ Len(scan.sources) > 10
    /\ Len(scan.out) = 10
    /\ scan.n > Len(scan.sources)

\* C6: init nulls out the prior session before creating a new one, also when
\* closing the prior context throws: once an init request is past its close,
\* the session no longer refers to the context it held when the request came.
C6_InitNullsPriorSession ==
    \A p \in Slots :
        (IsInitOp(proc[p].op) /\ proc[p].prior # 0 /\ proc[p].pc # "closing") =>
            session # proc[p].prior

\* C7: when close() or init runs while a search is in flight, the search
\* performs no further page action on the handle it captured and returns no
\* success result extracted from it.
C7_CloseInvalidatesSearch ==
    \A p \in Slots :
        proc[p].invalidated =>
            /\ ~proc[p].usedStale
            /\ ~(proc[p].outcome = "returned" /\ proc[p].result.success)

\* C8: when the session initialization of a search fails, the search caller
\* gets a failed result and the session is left null.
C8_InitFailureIsFailedResult ==
    \A p \in Slots :
        (IsSearchOp(proc[p].op) /\ proc[p].initFailed) =>
            /\ proc[p].outcome = "returned"
            /\ ~proc[p].result.success

\* The startup routine calls initialize(): the one call site that can meet
\* an existing session (search calls it only without one, init only after
\* close() has cleared it).
CallsInitialize(p) ==
    /\ p = Main
    /\ proc[p].pc = "connecting"
    /\ proc'[p].pc # "connecting"

\* C9: initialize() on an existing session is a no-op: it launches no
\* context, navigates nowhere on behalf of initialize, and leaves the session
\* and the contexts as they are.
C9_InitializeIdempotent ==
    [][\A p \in Procs :
          (CallsInitialize(p) /\ session # 0) =>
              /\ session' = session
              /\ ctx' = ctx
              /\ proc'[p].pc = "done"
              /\ ~proc'[p].touched]_vars

\* The startup routine called initialize() when a request had already created
\* the session, and it returned at once.
C9_Witness == proc[Main].pc = "done" /\ proc[Main].noop /\ session # 0

\* Malformed input of a tool call, in the words of the tools' input schemas.
Malformed(op, input) ==
    \/ input = Undefined
    \/ input.query = Undefined
    \/ input.query.t # "string"
    \/ input.query = Str(EmptyString)
    \/ /\ op = "tool_search"
       /\ input.mode # Undefined
       /\ input.mode \notin {Str(<<m>>) : m \in Modes}
    \/ /\ op = "tool_pro"
       /\ input.focus # Undefined
       /\ input.focus \notin {Str(<<f>>) : f \in Focuses}

\* C10: a search or pro_search tool call with malformed input is rejected
\* with the invalid-parameters code, which no runtime failure gets, and
\* invokes no browser operation.
C10_MalformedToolInputRejected ==
    \A p \in Slots :
        (proc[p].op \in {"tool_search", "tool_pro"}) =>
            IF Malformed(proc[p].op, proc[p].input)
            THEN /\ proc[p].pc = "replied"
                 /\ proc[p].reply = McpError("InvalidParams")
                 /\ ~proc[p].touched
            ELSE proc[p].reply # McpError("InvalidParams")

\* A tool search with the empty string as query was answered.
C10_Witness ==
    \E p \in Slots :
        /\ proc[p].op = "tool_search"
        /\ proc[p].input # Undefined
        /\ proc[p].input.query = Str(EmptyString)
        /\ proc[p].pc = "replied"

\* C11: a POST /search request whose query is not a non-empty string
\* (missing, empty, or not a string) is answered with status 400 and invokes
\* no session or page operation.
C11_HttpBadQueryRejected ==
    \A p \in Slots :
        (proc[p].op = "http_search" /\ ~IsNonEmptyString(GivenQuery(proc[p]))) =>
            /\ proc[p].pc = "replied"
            /\ proc[p].reply.status = 400
            /\ ~proc[p].touched

\* C12: a valid pro_search call with query q and focus f invokes the
\* underlying search exactly once, with the query text '[f] q' (q unchanged
\* when no focus is given) and with mode 'deep'.
C12_ProSearchTagsQueryDeep ==
    \A p \in Slots :
        (proc[p].op = "tool_pro" /\ ~Malformed("tool_pro", proc[p].input)) =>
            LET in == proc[p].input
            IN /\ proc[p].calls = 1
               /\ proc[p].pc # "replied" =>
                    /\ proc[p].mode = Str(<<"deep">>)
                    /\ proc[p].query =
                         IF in.focus = Undefined
                         THEN in.query
                         ELSE Str(<<"[", in.focus.v[1], "] ">> \o in.query.v)

\* A pro_search with focus 'academic' is navigating for its tagged query.
C12_Witness ==
    \E p \in Slots :
        /\ proc[p].op = "tool_pro"
        /\ proc[p].input # Undefined
        /\ proc[p].input.focus = Str(<<"academic">>)
        /\ proc[p].pc = "goto"
        /\ proc[p].query = Str(<<"[", "academic", "] ", "q">>)

\* C13: the mode with which search runs is always one of concise, copilot or
\* deep (concise when none is supplied), on the tool path and on the
\* POST /search path.
C13_ModeInEnumeration ==
    \A p \in Slots :
        (IsSearchOp(proc[p].op) /\ proc[p].calls > 0 /\ proc[p].pc # "replied") =>
            /\ proc[p].mode \in {Str(<<m>>) : m \in Modes}
            /\ (proc[p].op # "tool_pro" /\ proc[p].input.mode = Undefined) =>
                    proc[p].mode = Str(<<"concise">>)

\* C14: on SIGINT or SIGTERM the process exits only after the browser
\* contexts it launched have been closed, also when the signal arrives
\* during an initialize whose context is launched but not yet stored in the
\* session: once the process has exited, no context is left on which close
\* was never invoked.
C14_ExitAfterContextClosed ==
    exited => \A c \in Ctxs : ctx[c] # "live"

\* An init request that reported success.
InitSucceeded(rec) ==
    /\ IsInitOp(rec.op)
    /\ rec.pc = "replied"
    /\ rec.reply \in {ToolContent([success |-> TRUE]), HttpJson(200, [success |-> TRUE])}

\* C15: whenever an init operation (tool perplexity_init or POST /init)
\* reports success, the context the session held before the call is closed
\* and the session refers to a context launched during that init call.
C15_InitSuccessMeansFreshSession ==
    [][\A p \in Slots :
          (~InitSucceeded(proc[p]) /\ InitSucceeded(proc'[p])) =>
              /\ proc[p].prior # 0 =>
                    /\ ctx'[proc[p].prior] = "closed"
                    /\ session' # proc[p].prior
              /\ proc[p].page # 0
              /\ ctx[proc[p].page] = "live"
              /\ session' = proc[p].page]_vars

\* An init request that found a session reported success, and the session
\* holds another context than before.
C15_Witness ==
    \E p \in Slots :
        /\ InitSucceeded(proc[p])
        /\ proc[p].prior # 0
        /\ ctx[proc[p].prior] = "closed"
        /\ session \notin {0, proc[p].prior}

\* C16: when every extraction fallback yields the empty string, search
\* still returns success = true with a non-empty placeholder answer, not a
\* failure result.
C16_EmptyExtractionGetsPlaceholder ==
    [][\A p \in Slots :
          (/\ proc[p].pc = "sources"
           /\ proc[p].answer = Str(EmptyString)
           /\ proc'[p].pc # "sources") =>
              /\ proc'[p].outcome = "returned"
              /\ proc'[p].result.success
              /\ NonNull(proc'[p].result, "answer")
              /\ IsNonEmptyString(proc'[p].result.answer)
              /\ ~NonNull(proc'[p].result, "error")]_vars

\* A search whose extraction was empty returned the placeholder answer.
C16_Witness ==
    \E p \in Slots :
        /\ proc[p].outcome = "returned"
        /\ proc[p].result.success
        /\ proc[p].result.answer = Str(<<"No answer received from Perplexity">>)

\* A search call that has left its polling loop and has not thrown since.
PastPolling(rec) == rec.pc \in {"settle", "extract", "sources"}

\* C17: if the completion indicator first reports visible on the K-th check,
\* K below the maximum attempt count, the poller performs exactly K checks,
\* then stops, and the timeout branch is not taken.
C17_PollStopsAtFirstVisible ==
    \A p \in Slots :
        (proc[p].visibleAt # 0 /\ proc[p].visibleAt < maxAttempts) =>
            /\ proc[p].checks = proc[p].visibleAt
            /\ PastPolling(proc[p])
            /\ ~proc[p].timedOut

\* The indicator showed on the 59th check, and the answer is being extracted.
C17_Witness ==
    \E p \in Slots :
        /\ proc[p].visibleAt = maxAttempts - 1
        /\ proc[p].pc = "extract"

\* C18: if the completion indicator never reports visible, the poller
\* performs exactly 60 checks, takes the timeout branch, and extraction still
\* proceeds: the call returns success = true with the extracted text
\* whenever extraction yields text.
C18_PollTimeoutStillExtracts ==
    /\ [](\A p \in Slots :
            /\ (PastPolling(proc[p]) /\ proc[p].visibleAt = 0) =>
                    (proc[p].checks = 60 /\ proc[p].timedOut)
            /\ proc[p].timedOut => (proc[p].checks = 60 /\ proc[p].visibleAt = 0))
    /\ [][\A p \in Slots :
            (proc[p].timedOut /\ proc[p].pc = "sources" /\ proc'[p].pc # "sources"
             /\ IsNonEmptyString(proc[p].answer)) =>
                /\ proc'[p].outcome = "returned"
                /\ proc'[p].result.success
                /\ proc'[p].result.answer = proc[p].answer]_vars

\* After sixty checks without the indicator, extraction yielded text.
C18_Witness ==
    \E p \in Slots :
        /\ proc[p].timedOut
        /\ proc[p].pc = "sources"
        /\ IsNonEmptyString(proc[p].answer)

\* The entries of the resolver's list whose locator reported visible.
VisibleEntries == {i \in 1..Len(resolve.seen) : resolve.seen[i] = "visible"}

\* C19: selector resolution returns the entry with the lowest index whose
\* locator reports visible and probes no entry after it; when no entry is
\* visible (hidden or throwing, all of them) it returns null after probing
\* the whole list.
C19_FirstVisibleSelectorWins ==
    resolve.pc = "done" =>
        IF VisibleEntries = {}
        THEN /\ resolve.found = 0
             /\ Len(resolve.seen) = Len(SelectorsOf(resolve.of))
        ELSE /\ resolve.found \in VisibleEntries
             /\ \A i \in VisibleEntries : resolve.found <= i
             /\ Len(resolve.seen) = resolve.found

\* Only the last strategy of findSearchInput matched, after one that threw.
C19_Witness ==
    /\ resolve.pc = "done"
    /\ resolve.of = "input"
    /\ resolve.found = 13
    /\ InputSelectors[resolve.found] = "testid-input"
    /\ \E i \in 1..Len(resolve.seen) : resolve.seen[i] = "throws"

\* C20: if no search-input selector matches, the call is terminal: the
\* 'no-input-found' screenshot is requested and a failure result is
\* returned at once, so that no click, clear, typing, submission, polling or
\* extraction is performed in that call, whose only further step is its reply.
C20_InputNotFoundIsTerminal ==
    /\ [](\A p \in Slots :
            proc[p].inputFound = "no" =>
                /\ proc[p].pc = "replied"
                /\ proc[p].outcome = "returned"
                /\ ~proc[p].result.success
                /\ NonNull(proc[p].result, "error")
                /\ ~NonNull(proc[p].result, "answer")
                /\ proc[p].shot = "no-input-found")
    /\ [][\A p \in Slots :
            (proc[p].inputFound = "no" /\ proc'[p] # proc[p]) => proc'[p] = Idle]_vars

\* A search found no input on a live page and replied with the failure.
C20_Witness ==
    \E p \in Slots :
        /\ proc[p].inputFound = "no"
        /\ proc[p].pc = "replied"
        /\ proc[p].reply \in {ToolContent(proc[p].result), HttpJson(200, proc[p].result)}

\* The stage of a search call: 0 idle (no session captured yet), 1 session
\* ready (navigating), 2 navigated (locating the input), 3 input located
\* (clearing, typing, locating the submit control), 4 submitted, 5 polling,
\* 6 extracting, 7 done, 8 failed.
StageOf(rec) ==
    CASE rec.pc \in {"idle", "launching", "init_goto", "init_probe"} -> 0
      [] rec.pc = "goto" -> 1
      [] rec.pc = "findInput" -> 2
      [] rec.pc \in {"focus", "type", "findSubmit"} -> 3
      [] rec.pc = "submit" -> 4
      [] rec.pc \in {"pollCheck", "pollWait"} -> 5
      [] rec.pc \in {"settle", "extract", "sources"} -> 6
      [] rec.pc = "replied" /\ rec.outcome = "returned" /\ rec.result.success -> 7
      [] OTHER -> 8

\* C21: within one search call the stages occur only in the order session
\* ready, navigated, input located, submitted, polling, extracting, done: a
\* step of the call stays in its stage, enters the next one, or fails, and a
\* call that is done or failed only sends its reply.
C21_StagesInOrder ==
    [][\A p \in Slots :
          (IsSearchOp(proc[p].op) \/ IsSearchOp(proc'[p].op)) =>
              LET s == StageOf(proc[p])
                  t == StageOf(proc'[p])
              IN IF s \in {7, 8}
                 THEN t = s \/ proc'[p] = Idle
                 ELSE t \in {s, s + 1, 8}]_vars

\* A search went through every stage and is done.
C21_Witness ==
    \E p \in Slots :
        /\ IsSearchOp(proc[p].op)
        /\ StageOf(proc[p]) = 7
        /\ proc[p].shot = "response"

\* C22: nothing in a search call is retried: the call navigates to the site
\* exactly once, clears and types the query at most once, and submits at
\* most once, by a click on the submit control or by one Enter key press,
\* never both, however the polling ends.
C22_NoRetryInSearch ==
    \A p \in Slots :
        IsSearchOp(proc[p].op) =>
            LET rec == proc[p]
            IN /\ rec.navs <= 1 /\ rec.clears <= 1 /\ rec.types <= 1 /\ rec.submits <= 1
               /\ StageOf(rec) \in 1..6 => rec.navs = 1
               /\ StageOf(rec) = 4 => rec.via \in {"click", "enter"}
               /\ StageOf(rec) \in 4..6 =>
                    /\ rec.clears = 1
                    /\ rec.types = 1
                    /\ rec.submits = 1

\* After a poll that timed out, the call has navigated, typed and submitted
\* once each, and extracts.
C22_Witness ==
    \E p \in Slots :
        /\ proc[p].timedOut
        /\ proc[p].pc = "extract"
        /\ proc[p].navs = 1
        /\ proc[p].types = 1
        /\ proc[p].submits = 1

\* A search call that was invoked and has not ended.
SearchInFlight(rec) == IsSearchOp(rec.op) /\ rec.calls > 0 /\ rec.pc # "replied"

\* Every search call ends, by a result or by an exception, and its polling
\* loop makes at most 60 checks, its counter growing with every iteration
\* that does not end the loop.
SearchTerminates ==
    /\ \A p \in Slots : SearchInFlight(proc[p]) ~> (proc[p].pc = "replied")
    /\ [](\A p \in Slots : proc[p].checks <= 60 /\ proc[p].attempts <= 60)
    /\ [][\A p \in Slots :
            (proc[p].pc = "pollWait" /\ proc'[p].pc = "pollCheck") =>
                proc'[p].attempts = proc[p].attempts + 1]_vars

\* C23: every search call terminates with a result, provided each page
\* operation returns or throws: a call that was invoked eventually returns a
\* result to its caller, after at most 60 iterations of the polling loop.
C23_SearchTerminatesWithResult ==
    /\ \A p \in Slots : SearchInFlight(proc[p]) ~> (proc[p].outcome = "returned")
    /\ [](\A p \in Slots : proc[p].checks <= 60)

\* C24: diagnostic screenshots are purely observational: two runs of a
\* search on pages that behave alike, differing only in which captures
\* succeed, go through the same page actions and return the same result, and
\* a failing capture raises no error into the search flow.
C24_ScreenshotsObservational ==
    twin.pc = "running" =>
        /\ twin.a.pc = twin.b.pc
        /\ twin.a.trace = twin.b.trace
        /\ twin.a.result = twin.b.result
        /\ ~twin.a.raised /\ ~twin.b.raised
        /\ twin.a.pc # "threw" /\ twin.b.pc # "threw"

\* Two runs returned the same success after a poll that timed out, one with
\* every capture taken, the other with a capture lost.
C24_Witness ==
    /\ twin.pc = "running"
    /\ twin.a.pc = "done" /\ twin.b.pc = "done"
    /\ twin.a.result.success
    /\ twin.a.lost /\ ~twin.b.lost
    /\ Len(twin.a.trace) > 2 * maxAttempts

\* A container match of the page that qualifies as the answer: readable,
\* longer than 100 characters, outside navigation, header and footer.
Qualifying(page) ==
    {m \in {<<s, i>> : s \in 1..Len(page.containers), i \in 1..(MaxElems + 1)} :
        /\ m[2] <= Len(page.containers[m[1]])
        /\ LET e == page.containers[m[1]][m[2]]
           IN ~e.throws /\ e.len > 100 /\ ~e.nav}

\* m comes before n in selector order, then element order.
Before(m, n) == m[1] < n[1] \/ (m[1] = n[1] /\ m[2] <= n[2])

\* The children of a visible main that clear 50 characters.
MainCandidates(page) ==
    IF page.main.state = "visible"
    THEN {i \in 1..Len(page.main.children) : page.main.children[i].len > 50}
    ELSE {}

\* Some strategy of the cascade has text to give on the page: a qualifying
\* container or a main child above 50 characters that is not blank, or a
\* body line.
YieldsText(page) ==
    \/ \E m \in Qualifying(page) : page.containers[m[1]][m[2]].trim > 0
    \/ \E i \in MainCandidates(page) : page.main.children[i].trim > 0
    \/ page.body.lines > 0

\* C25: answer extraction is a strict priority cascade: the first
\* qualifying container match is returned; the longest main child above 50
\* characters only if no container qualified; the body lines only if that
\* produced nothing either; and the empty string only if every fallback
\* yields nothing.
C25_ExtractionCascade ==
    extraction.pc = "done" =>
        LET page == extraction.page
            out == extraction.out
            Q == Qualifying(page)
            M == MainCandidates(page)
        IN /\ Q # {} =>
                /\ out.from = "container"
                /\ <<out.sel, out.idx>> \in Q
                /\ \A m \in Q : Before(<<out.sel, out.idx>>, m)
           /\ (Q = {} /\ M # {}) =>
                /\ out.from = "main"
                /\ out.idx \in M
                /\ \A i \in M : page.main.children[i].len <= page.main.children[out.idx].len
           /\ (Q = {} /\ M = {} /\ page.body.lines > 0) => out.from = "body"
           /\ out.len = 0 => ~YieldsText(page)

\* The links of the list that the reference keeps: among the first 15, those
\* that can be read, carry an href outside the site's own domain and a text
\* below 200 characters that is not blank, ...
Passing(links) ==
    {i \in 1..Len(links) :
        /\ i <= 15
        /\ ~links[i].throws
        /\ links[i].href \notin {NullHref, OwnDomainHref}
        /\ links[i].trim > 0
        /\ links[i].len < 200}

\* ... and whose href no earlier kept link carries.
FirstOccurrences(links) ==
    {i \in Passing(links) : \A j \in Passing(links) : j < i => links[j].href # links[i].href}

\* The position in the list of links of the r-th of them.
NthKept(kept, r) == CHOOSE i \in kept : Cardinality({j \in kept : j <= i}) = r

C27_TranscriptAlternates ==
    \A i \in 1..Len(panel.messages) :
        LET m == panel.messages[i]
        IN /\ m.role = (IF i % 2 = 1 THEN "user" ELSE "assistant")
           /\ m.role = "assistant" => (i > 1 /\ panel.messages[i - 1].q = m.q)
           /\ m.q \in 1..panel.asked

\* C28: while a search or init request that the panel's handlers sent is
\* outstanding, the webview's isLoading is set (loading = false is posted
\* only when none is outstanding).
C28_LoadingWhileOutstanding ==
    (\E r \in panel.requests : r.by # "perplexity.initSession") => panel.isLoading

\* The sum of the fixed waits of a search that ends by poll timeout.
FixedWaits ==
    GotoWait + FocusWait + ClearWait + TypeWait + SubmitWait + maxAttempts * PollWait + SettleWait

\* C29: the client's timeout for /search is not below the fixed waits of a
\* search that ends by poll timeout, and such a search delivers its result to
\* the panel: the client's request has not timed out when the server answers.
C29_PollTimeoutWithinClientTimeout ==
    timing.pc = "responded" /\ timing.attempts >= maxAttempts =>
        /\ timing.elapsed = FixedWaits
        /\ ClientSearchTimeout >= timing.elapsed
        /\ timing.client = "delivered"

====
